---- MODULE Spec2Model ----
(***************************************************************************)
(* Model of the news reader's search core: the query parser of             *)
(* search_parser.py (tokenizer, prefix normalizer, implicit-AND inserter,  *)
(* operator collapser, NOT/AND/OR builders, pruner), its two renderers,    *)
(* the Database of db.py (insert_many, search and the read operations),    *)
(* and the /filter session of bot_commands.py (filter_cmd, the pagination  *)
(* callbacks and their SEARCH_CACHE).                                      *)
(*                                                                         *)
(* A Python str is modelled as a sequence of one-character strings, so     *)
(* that tokenizing, sanitizing and lowercasing are computed, not assumed.  *)
(***************************************************************************)
EXTENDS Integers, Sequences, FiniteSets, TLC

VARIABLES
    raw,            \* the query text handed to parse_user_query / Database.search
    ast,            \* what parse_user_query returned for raw (Unset before the call)
    pc,             \* "input" before the call, "parsed" / "searched" after it
    news,           \* rows of the news table, in insertion (id) order
    fts_available,  \* Database._fts_available
    result,         \* what Database.search returned: [rows, total]
    storage,        \* the storage statements Database.search issued, in order
    SEARCH_CACHE,   \* setup_handlers' SEARCH_CACHE: key -> normalized query text
    chat,           \* the bot's search messages in the chat, as displayed now
    answer,         \* how the last handler run ended
    proc,           \* how many times the bot process has been started again
    pages,          \* the pages a reader has fetched of one query, in order
    rendered,       \* what build_like_sql returned for ast (Unset before the call)
    fetch,          \* the do_fetch runs: where each is and what it holds
    returned        \* what the insert_many calls have returned so far, summed

\* the state of the chat session, which the parser and the database leave alone
session == <<SEARCH_CACHE, chat, answer, proc, pages>>

\* the state of the fetch jobs, which searching and rendering leave alone
fetching == <<fetch, returned>>

vars == <<raw, ast, pc, news, fts_available, result, storage, session, rendered, fetching>>

-----------------------------------------------------------------------------
(* Characters.                                                             *)

Quote == "\""
Space == " "
Newline == "\n"
Backslash == "\\"

LowerLetters == {"a", "b", "c", "d", "n", "o", "r", "t"}
UpperLetters == {"A", "B", "C", "D", "N", "O", "R", "T"}
Letters == LowerLetters \cup UpperLetters

\* str.lower() / str.upper() on one character
lower_char(c) ==
    CASE c = "A" -> "a" [] c = "B" -> "b" [] c = "C" -> "c" [] c = "D" -> "d"
      [] c = "N" -> "n" [] c = "O" -> "o" [] c = "R" -> "r" [] c = "T" -> "t"
      [] OTHER -> c

upper_char(c) ==
    CASE c = "a" -> "A" [] c = "b" -> "B" [] c = "c" -> "C" [] c = "d" -> "D"
      [] c = "n" -> "N" [] c = "o" -> "O" [] c = "r" -> "R" [] c = "t" -> "T"
      [] OTHER -> c

lower(s) == [i \in 1..Len(s) |-> lower_char(s[i])]
upper(s) == [i \in 1..Len(s) |-> upper_char(s[i])]

\* \s of the regular expressions and of str.strip()
IsSpace(c) == c \in {Space, Newline}

\* the characters TERM_CLEAN_RE keeps: [0-9A-Za-z..._\\-]; the class names
\* the backslash too
TermChar(c) == c \in Letters \cup {"_", Backslash, "-"}

RECURSIVE lstrip(_)
lstrip(s) == IF s # <<>> /\ IsSpace(Head(s)) THEN lstrip(Tail(s)) ELSE s

RECURSIVE rstrip(_)
rstrip(s) ==
    IF s # <<>> /\ IsSpace(s[Len(s)]) THEN rstrip(SubSeq(s, 1, Len(s) - 1)) ELSE s

strip(s) == rstrip(lstrip(s))

-----------------------------------------------------------------------------
(* The AST.                                                                *)

Term(value, phrase) == [kind |-> "Term", value |-> value, phrase |-> phrase]
NotNode(node) == [kind |-> "Not", node |-> node]
AndNode(nodes) == [kind |-> "And", nodes |-> nodes]
OrNode(nodes) == [kind |-> "Or", nodes |-> nodes]

\* Python's None
None == [kind |-> "None"]
\* an exception leaving the function
Raised(exc) == [kind |-> "Raise", exc |-> exc]
\* no call made yet
Unset == [kind |-> "Unset"]

\* an operator string that stays in a list next to built nodes
OpStr(op) == [kind |-> "Str", str |-> op]
IsOpStr(item, op) == item.kind = "Str" /\ item.str = op

STR_AND == <<"A", "N", "D">>
STR_OR == <<"O", "R">>
STR_NOT == <<"N", "O", "T">>
OPERATORS == {STR_AND, STR_OR, STR_NOT}

-----------------------------------------------------------------------------
(* sanitize_term and tokenize.                                             *)

\* TERM_CLEAN_RE.sub(' ', term): every maximal run of characters outside the
\* class becomes one space
RECURSIVE clean_sub(_, _)
clean_sub(s, inRun) ==
    IF s = <<>> THEN <<>>
    ELSE IF TermChar(Head(s)) THEN <<Head(s)>> \o clean_sub(Tail(s), FALSE)
    ELSE IF inRun THEN clean_sub(Tail(s), TRUE)
    ELSE <<Space>> \o clean_sub(Tail(s), TRUE)

sanitize_term(rawTerm) == lower(strip(clean_sub(strip(rawTerm), FALSE)))

\* ".*?" at position i: the nearest later quote, provided no line break lies
\* before it ('.' does not match a line break); 0 when there is none
ClosingQuote(s, i) ==
    LET js == {j \in (i + 1)..Len(s) :
                  /\ s[j] = Quote
                  /\ \A k \in (i + 1)..(j - 1) : s[k] # Quote /\ s[k] # Newline}
    IN IF js = {} THEN 0 ELSE CHOOSE j \in js : TRUE

\* \S+ at position i: the last index of the maximal run of non-space characters
RECURSIVE RunEnd(_, _)
RunEnd(s, i) == IF i < Len(s) /\ ~IsSpace(s[i + 1]) THEN RunEnd(s, i + 1) ELSE i

\* TOKEN_SPLIT_RE.findall(raw), scanning from position i
RECURSIVE findall(_, _)
findall(s, i) ==
    IF i > Len(s) THEN <<>>
    ELSE IF s[i] = Quote /\ ClosingQuote(s, i) # 0
         THEN <<SubSeq(s, i, ClosingQuote(s, i))>> \o findall(s, ClosingQuote(s, i) + 1)
    ELSE IF ~IsSpace(s[i])
         THEN <<SubSeq(s, i, RunEnd(s, i))>> \o findall(s, RunEnd(s, i) + 1)
    ELSE findall(s, i + 1)

tokenize(s) == SelectSeq(findall(s, 1), LAMBDA t : strip(t) # <<>>)

-----------------------------------------------------------------------------
(* parse_user_query, phase by phase.                                       *)

\* a phase that ran to its end with value val, or left with exception exc
Ok(val) == [exc |-> "", val |-> val]
Raise(exc) == [exc |-> exc, val |-> <<>>]

PrefixChars == {"+", "-", "|"}

\* tok.startswith('"') and tok.endswith('"') and len(tok) >= 2
IsQuoted(tok) == Len(tok) >= 2 /\ tok[1] = Quote /\ tok[Len(tok)] = Quote

\* the prefix normalizer with '|' written as AND
RECURSIVE expanded_pipe_as_and(_, _)
expanded_pipe_as_and(tokens, acc) ==
    IF tokens = <<>> THEN Ok(acc)
    ELSE LET tok == Head(tokens) IN
         IF IsQuoted(tok) THEN expanded_pipe_as_and(Tail(tokens), Append(acc, tok))
         ELSE IF tok = <<>> THEN Raise("IndexError")
         ELSE LET pref == tok[1]
                  body == IF pref \in PrefixChars THEN Tail(tok) ELSE tok
              IN IF pref \in PrefixChars /\ body = <<>>
                     THEN expanded_pipe_as_and(Tail(tokens), acc)
                 ELSE IF pref \in {"+", "|"}
                     THEN expanded_pipe_as_and(Tail(tokens), acc \o <<STR_AND, body>>)
                 ELSE IF pref = "-"
                     THEN expanded_pipe_as_and(Tail(tokens), acc \o <<STR_NOT, body>>)
                 ELSE expanded_pipe_as_and(Tail(tokens), Append(acc, tok))

\* the loop that fills `expanded`: prefixes become explicit operators
RECURSIVE expanded(_, _)
expanded(tokens, acc) ==
    IF tokens = <<>> THEN Ok(acc)
    ELSE LET tok == Head(tokens) IN
         IF IsQuoted(tok) THEN expanded(Tail(tokens), Append(acc, tok))
         ELSE IF tok = <<>> THEN Raise("IndexError")     \* tok[0]
         ELSE LET pref == tok[1]
                  body == IF pref \in PrefixChars THEN Tail(tok) ELSE tok
              IN IF pref \in PrefixChars /\ body = <<>>
                     THEN expanded(Tail(tokens), acc)
                 ELSE IF pref = "+"
                     THEN expanded(Tail(tokens), acc \o <<STR_AND, body>>)
                 ELSE IF pref = "-"
                     THEN expanded(Tail(tokens), acc \o <<STR_NOT, body>>)
                 ELSE IF pref = "|"
                     THEN expanded(Tail(tokens), acc \o <<STR_OR, body>>)
                 ELSE expanded(Tail(tokens), Append(acc, tok))

\* the inserter joining two adjacent terms with OR
RECURSIVE normalized_inserts_or(_, _, _)
normalized_inserts_or(toks, prev_was_term, acc) ==
    IF toks = <<>> THEN acc
    ELSE LET tok == Head(toks)
             is_term == upper(tok) \notin OPERATORS
         IN normalized_inserts_or(Tail(toks), is_term,
                                  IF is_term /\ prev_was_term
                                  THEN acc \o <<STR_OR, tok>>
                                  ELSE Append(acc, tok))

\* the loop that fills `normalized`: an AND between two adjacent terms
RECURSIVE normalized(_, _, _)
normalized(toks, prev_was_term, acc) ==
    IF toks = <<>> THEN acc
    ELSE LET tok == Head(toks)
             is_op == upper(tok) \in OPERATORS
             is_term == ~is_op
         IN normalized(Tail(toks), is_term,
                       IF is_term /\ prev_was_term
                       THEN acc \o <<STR_AND, tok>>
                       ELSE Append(acc, tok))

\* the loop that fills `cleaned`: of a run of operators only the first stays
RECURSIVE cleaned(_, _, _)
cleaned(toks, prev_op, acc) ==
    IF toks = <<>> THEN acc
    ELSE LET tok == Head(toks) IN
         IF upper(tok) \in OPERATORS
         THEN IF prev_op THEN cleaned(Tail(toks), prev_op, acc)
              ELSE cleaned(Tail(toks), TRUE, Append(acc, upper(tok)))
         ELSE cleaned(Tail(toks), FALSE, Append(acc, tok))

build_term(tok) ==
    IF IsQuoted(tok)
    THEN Term(sanitize_term(SubSeq(tok, 2, Len(tok) - 1)), TRUE)
    ELSE Term(sanitize_term(tok), FALSE)

\* consume_not reading seq[i + 1] without the `i + 1 < len(seq)` test
RECURSIVE consume_not_unguarded(_, _, _)
consume_not_unguarded(seq, i, out) ==
    IF i > Len(seq) THEN Ok(out)
    ELSE LET tok == seq[i] IN
         IF tok = STR_NOT
         THEN IF i + 1 <= Len(seq)
              THEN consume_not_unguarded(seq, i + 2,
                                         Append(out, NotNode(build_term(seq[i + 1]))))
              ELSE Raise("IndexError")
         ELSE IF tok \in OPERATORS
              THEN consume_not_unguarded(seq, i + 1, Append(out, OpStr(tok)))
              ELSE consume_not_unguarded(seq, i + 1, Append(out, build_term(tok)))

\* consume_not: i is the (1-based) position in seq, out the list built so far
RECURSIVE consume_not(_, _, _)
consume_not(seq, i, out) ==
    IF i > Len(seq) THEN Ok(out)
    ELSE LET tok == seq[i] IN
         IF tok = STR_NOT
         THEN IF i + 1 <= Len(seq)
              THEN consume_not(seq, i + 2, Append(out, NotNode(build_term(seq[i + 1]))))
              ELSE consume_not(seq, i + 1, out)
         ELSE IF tok \in OPERATORS
              THEN consume_not(seq, i + 1, Append(out, OpStr(tok)))
              ELSE consume_not(seq, i + 1, Append(out, build_term(tok)))

\* flush() of consume_and: the value of `out` after it
and_flush(out, current) ==
    IF current = <<>> THEN out
    ELSE IF Len(current) = 1 THEN Append(out, current[1])
    ELSE LET non_empty == SelectSeq(current,
                              LAMBDA c : c.kind # "Term" \/ c.value # <<>>)
         IN IF non_empty = <<>>
            THEN Append(out, Term(<<>>, FALSE))
            ELSE Append(out, AndNode(non_empty))

\* consume_and taking OR for a separator, as it takes AND
RECURSIVE consume_and_or_as_separator(_, _, _)
consume_and_or_as_separator(seq, out, current) ==
    IF seq = <<>> THEN and_flush(out, current)
    ELSE LET part == Head(seq) IN
         IF IsOpStr(part, STR_AND) \/ IsOpStr(part, STR_OR)
         THEN consume_and_or_as_separator(Tail(seq), out, current)
         ELSE consume_and_or_as_separator(Tail(seq), out, Append(current, part))

RECURSIVE consume_and(_, _, _)
consume_and(seq, out, current) ==
    IF seq = <<>> THEN and_flush(out, current)
    ELSE LET part == Head(seq) IN
         IF IsOpStr(part, STR_AND) THEN consume_and(Tail(seq), out, current)
         ELSE IF IsOpStr(part, STR_OR)
              THEN consume_and(Tail(seq), Append(and_flush(out, current), OpStr(STR_OR)), <<>>)
         ELSE consume_and(Tail(seq), out, Append(current, part))

\* flush() of consume_or: the value of `groups` after it
or_flush(groups, current) ==
    IF current = <<>> THEN Append(groups, Term(<<>>, FALSE))
    ELSE IF Len(current) = 1 THEN Append(groups, current[1])
    ELSE Append(groups, AndNode(current))

RECURSIVE consume_or_groups(_, _, _)
consume_or_groups(seq, groups, current) ==
    IF seq = <<>> THEN or_flush(groups, current)
    ELSE IF IsOpStr(Head(seq), STR_OR)
         THEN consume_or_groups(Tail(seq), or_flush(groups, current), <<>>)
         ELSE consume_or_groups(Tail(seq), groups, Append(current, Head(seq)))

\* consume_or building "first group OR the rest" when there are several ORs
consume_or_right_nested(seq) ==
    LET groups == consume_or_groups(seq, <<>>, <<>>)
    IN IF Len(groups) = 1 THEN groups[1]
       ELSE IF Len(groups) = 2 THEN OrNode(groups)
       ELSE OrNode(<<groups[1], OrNode(Tail(groups))>>)

consume_or(seq) ==
    LET groups == consume_or_groups(seq, <<>>, <<>>)
    IN IF Len(groups) = 1 THEN groups[1] ELSE OrNode(groups)

\* prune without the replacement of a composite left with one child
RECURSIVE prune_keeps_singleton(_)
prune_keeps_singleton(node) ==
    IF node.kind = "Term"
    THEN IF node.value = <<>> THEN None ELSE node
    ELSE IF node.kind = "Not"
    THEN LET inner == prune_keeps_singleton(node.node)
         IN IF inner # None THEN NotNode(inner) ELSE None
    ELSE IF node.kind \in {"And", "Or"}
    THEN LET pruned == [i \in 1..Len(node.nodes) |-> prune_keeps_singleton(node.nodes[i])]
             nodes == SelectSeq(pruned, LAMBDA p : p # None)
         IN IF nodes = <<>> THEN None
            ELSE IF node.kind = "And" THEN AndNode(nodes) ELSE OrNode(nodes)
    ELSE None

RECURSIVE prune(_)
prune(node) ==
    IF node.kind = "Term"
    THEN IF node.value = <<>> THEN None ELSE node
    ELSE IF node.kind = "Not"
    THEN LET inner == prune(node.node)
         IN IF inner # None THEN NotNode(inner) ELSE None
    ELSE IF node.kind \in {"And", "Or"}
    THEN LET pruned == [i \in 1..Len(node.nodes) |-> prune(node.nodes[i])]
             nodes == SelectSeq(pruned, LAMBDA p : p # None)
         IN IF nodes = <<>> THEN None
            ELSE IF Len(nodes) = 1 THEN nodes[1]
            ELSE IF node.kind = "And" THEN AndNode(nodes) ELSE OrNode(nodes)
    ELSE None

parse_user_query(q) ==
    LET stripped == strip(q) IN
    IF stripped = <<>> THEN None
    ELSE LET ex == expanded(tokenize(stripped), <<>>) IN
         IF ex.exc # "" THEN Raised(ex.exc)
         ELSE LET np == consume_not(cleaned(normalized(ex.val, FALSE, <<>>),
                                            FALSE, <<>>), 1, <<>>)
              IN IF np.exc # "" THEN Raised(np.exc)
                 ELSE prune(consume_or(consume_and(np.val, <<>>, <<>>)))

-----------------------------------------------------------------------------
(* build_fts_query and build_like_sql.                                     *)

\* F applied to the value of x, x being evaluated one time only
Once(x, F(_)) == CHOOSE v \in {F(r) : r \in {x}} : TRUE

\* sep.join(parts)
RECURSIVE Join(_, _)
Join(parts, sep) ==
    IF parts = <<>> THEN <<>>
    ELSE IF Len(parts) = 1 THEN parts[1]
    ELSE parts[1] \o sep \o Join(Tail(parts), sep)

\* render of build_fts_query
RECURSIVE fts_render(_)
fts_render(n) ==
    IF n.kind = "Term"
    THEN IF n.phrase THEN <<Quote>> \o n.value \o <<Quote>> ELSE n.value
    ELSE IF n.kind = "Not"
    THEN <<"N", "O", "T", " ", "(">> \o fts_render(n.node) \o <<")">>
    ELSE IF n.kind = "And"
    THEN Join([i \in 1..Len(n.nodes) |-> fts_render(n.nodes[i])], <<Space>>)
    ELSE IF n.kind = "Or"
    THEN Join([i \in 1..Len(n.nodes) |-> fts_render(n.nodes[i])],
              <<Space, "O", "R", Space>>)
    ELSE <<>>

build_fts_query(a) == fts_render(a)

\* esc of build_like_sql: '%' and '_' get a backslash in front
RECURSIVE esc(_)
esc(v) ==
    IF v = <<>> THEN <<>>
    ELSE IF Head(v) \in {"%", "_"} THEN <<Backslash, Head(v)>> \o esc(Tail(v))
    ELSE <<Head(v)>> \o esc(Tail(v))

\* the SQL text is kept as its sequence of lexical units; a LIKE comparison
\* with its '?' placeholder is one unit
TITLE_LIKE == "lower(title) LIKE ? ESCAPE '\\'"
SUMMARY_LIKE == "lower(summary) LIKE ? ESCAPE '\\'"

term_clause(t) ==
    LET pattern == <<"%">> \o esc(t.value) \o <<"%">>
    IN [sql |-> <<"(", TITLE_LIKE, "OR", SUMMARY_LIKE, ")">>,
        params |-> <<pattern, pattern>>]

\* render of build_like_sql, its two results apart: the SQL text ...
RECURSIVE like_sql(_)
like_sql(n) ==
    IF n.kind = "Term" THEN term_clause(n).sql
    ELSE IF n.kind = "Not" THEN <<"(", "NOT">> \o like_sql(n.node) \o <<")">>
    ELSE IF n.kind \in {"And", "Or"}
    THEN <<"(">> \o Join([i \in 1..Len(n.nodes) |-> like_sql(n.nodes[i])],
                         IF n.kind = "And" THEN <<"AND">> ELSE <<"OR">>) \o <<")">>
    ELSE <<"(", "1=1", ")">>

\* the parameter list with the children taken right to left
RECURSIVE like_params_reversed(_)
like_params_reversed(n) ==
    IF n.kind = "Term" THEN term_clause(n).params
    ELSE IF n.kind = "Not" THEN like_params_reversed(n.node)
    ELSE IF n.kind \in {"And", "Or"}
    THEN Join([i \in 1..Len(n.nodes) |->
                  like_params_reversed(n.nodes[Len(n.nodes) + 1 - i])], <<>>)
    ELSE <<>>

\* ... and the parameter list, extended child by child
RECURSIVE like_params(_)
like_params(n) ==
    IF n.kind = "Term" THEN term_clause(n).params
    ELSE IF n.kind = "Not" THEN like_params(n.node)
    ELSE IF n.kind \in {"And", "Or"}
    THEN Join([i \in 1..Len(n.nodes) |-> like_params(n.nodes[i])], <<>>)
    ELSE <<>>

build_like_sql(a) == [sql |-> like_sql(a), params |-> like_params(a)]

-----------------------------------------------------------------------------
(* The storage engine: the FTS5 index behind news_fts MATCH ?.             *)

\* the characters of an FTS5 bareword
BarewordChar(c) == c \in Letters \cup {"_"}
\* the characters the index tokenizer (unicode61) keeps in a token
TokenChar(c) == c \in Letters

\* the tokens of a text: maximal runs of token characters, case folded
RECURSIVE fts_tokens(_, _, _)
fts_tokens(s, cur, acc) ==
    IF s = <<>> THEN (IF cur = <<>> THEN acc ELSE Append(acc, cur))
    ELSE IF TokenChar(Head(s))
         THEN fts_tokens(Tail(s), Append(cur, lower_char(Head(s))), acc)
    ELSE fts_tokens(Tail(s), <<>>, IF cur = <<>> THEN acc ELSE Append(acc, cur))

\* the last index of the run of bareword characters starting at i
RECURSIVE BarewordEnd(_, _)
BarewordEnd(s, i) ==
    IF i < Len(s) /\ BarewordChar(s[i + 1]) THEN BarewordEnd(s, i + 1) ELSE i

\* the lexer of the MATCH expression: strings (barewords and quoted), the
\* keywords AND OR NOT, parentheses; any other character ends in an error
RECURSIVE fts_lex(_, _, _)
fts_lex(s, i, acc) ==
    IF i > Len(s) THEN [ok |-> TRUE, toks |-> acc]
    ELSE IF IsSpace(s[i]) THEN fts_lex(s, i + 1, acc)
    ELSE IF s[i] = "(" THEN fts_lex(s, i + 1, Append(acc, [t |-> "LP", text |-> <<>>]))
    ELSE IF s[i] = ")" THEN fts_lex(s, i + 1, Append(acc, [t |-> "RP", text |-> <<>>]))
    ELSE IF s[i] = Quote
    THEN LET js == {j \in (i + 1)..Len(s) : s[j] = Quote /\ \A k \in (i + 1)..(j - 1) : s[k] # Quote}
         IN IF js = {} THEN [ok |-> FALSE, toks |-> <<>>]
            ELSE LET j == CHOOSE x \in js : TRUE
                 IN fts_lex(s, j + 1,
                            Append(acc, [t |-> "STR", text |-> SubSeq(s, i + 1, j - 1)]))
    ELSE IF BarewordChar(s[i])
    THEN LET e == BarewordEnd(s, i)
             w == SubSeq(s, i, e)
         IN fts_lex(s, e + 1,
                    Append(acc, IF w = STR_AND THEN [t |-> "AND", text |-> <<>>]
                                ELSE IF w = STR_OR THEN [t |-> "OR", text |-> <<>>]
                                ELSE IF w = STR_NOT THEN [t |-> "NOT", text |-> <<>>]
                                ELSE [t |-> "STR", text |-> w]))
    ELSE [ok |-> FALSE, toks |-> <<>>]

\* p occurs in d as a run of adjacent tokens
PhraseIn(p, d) ==
    \E k \in 0..(Len(d) - Len(p)) : \A i \in 1..Len(p) : d[k + i] = p[i]

\* a phrase matches a row when one column holds it
phrase_matches(p, row) ==
    \/ PhraseIn(p, fts_tokens(row.title, <<>>, <<>>))
    \/ PhraseIn(p, fts_tokens(row.summary, <<>>, <<>>))

FtsFail == [ok |-> FALSE, val |-> FALSE, pos |-> 0]

\* the last index of the run of strings starting at pos
RECURSIVE StrEnd(_, _)
StrEnd(toks, pos) ==
    IF pos < Len(toks) /\ toks[pos + 1].t = "STR" THEN StrEnd(toks, pos + 1) ELSE pos

\* the parser of the MATCH expression, evaluated on one row as it goes:
\* OR binds loosest, then AND, then NOT (binary), then the implicit AND of
\* adjacent strings.  A string without tokens is left out of an implicit AND
\* and matches nothing on its own.
RECURSIVE fts_or(_, _, _)
RECURSIVE fts_or_rest(_, _, _, _)
RECURSIVE fts_and(_, _, _)
RECURSIVE fts_and_rest(_, _, _, _)
RECURSIVE fts_not(_, _, _)
RECURSIVE fts_not_rest(_, _, _, _)
RECURSIVE fts_primary(_, _, _)

fts_primary(toks, pos, row) ==
    IF pos > Len(toks) THEN FtsFail
    ELSE IF toks[pos].t = "LP"
    THEN LET close(r) == IF r.ok /\ r.pos <= Len(toks) /\ toks[r.pos].t = "RP"
                         THEN [ok |-> TRUE, val |-> r.val, pos |-> r.pos + 1]
                         ELSE FtsFail
         IN Once(fts_or(toks, pos + 1, row), close)
    ELSE IF toks[pos].t = "STR"
    THEN LET list(e) ==
                 LET phrases == {fts_tokens(toks[i].text, <<>>, <<>>) : i \in pos..e} \ {<<>>}
                 IN [ok |-> TRUE,
                     val |-> phrases # {} /\ \A p \in phrases : phrase_matches(p, row),
                     pos |-> e + 1]
         IN Once(StrEnd(toks, pos), list)
    ELSE FtsFail

fts_not_rest(toks, pos, acc, row) ==
    IF pos <= Len(toks) /\ toks[pos].t = "NOT"
    THEN LET more(r) == IF r.ok THEN fts_not_rest(toks, r.pos, acc /\ ~r.val, row)
                        ELSE FtsFail
         IN Once(fts_primary(toks, pos + 1, row), more)
    ELSE [ok |-> TRUE, val |-> acc, pos |-> pos]

fts_not(toks, pos, row) ==
    LET more(l) == IF l.ok THEN fts_not_rest(toks, l.pos, l.val, row) ELSE FtsFail
    IN Once(fts_primary(toks, pos, row), more)

fts_and_rest(toks, pos, acc, row) ==
    IF pos <= Len(toks) /\ toks[pos].t = "AND"
    THEN LET more(r) == IF r.ok THEN fts_and_rest(toks, r.pos, acc /\ r.val, row)
                        ELSE FtsFail
         IN Once(fts_not(toks, pos + 1, row), more)
    ELSE [ok |-> TRUE, val |-> acc, pos |-> pos]

fts_and(toks, pos, row) ==
    LET more(l) == IF l.ok THEN fts_and_rest(toks, l.pos, l.val, row) ELSE FtsFail
    IN Once(fts_not(toks, pos, row), more)

fts_or_rest(toks, pos, acc, row) ==
    IF pos <= Len(toks) /\ toks[pos].t = "OR"
    THEN LET more(r) == IF r.ok THEN fts_or_rest(toks, r.pos, acc \/ r.val, row)
                        ELSE FtsFail
         IN Once(fts_and(toks, pos + 1, row), more)
    ELSE [ok |-> TRUE, val |-> acc, pos |-> pos]

fts_or(toks, pos, row) ==
    LET more(l) == IF l.ok THEN fts_or_rest(toks, l.pos, l.val, row) ELSE FtsFail
    IN Once(fts_and(toks, pos, row), more)

\* news_fts MATCH q on one row: [ok |-> FALSE] is sqlite3.OperationalError
\* (fts5: syntax error), raised whatever the table holds
fts_match(q, row) ==
    LET parsed(lx) ==
            LET whole(r) == IF r.ok /\ r.pos = Len(lx.toks) + 1
                            THEN [ok |-> TRUE, val |-> r.val]
                            ELSE [ok |-> FALSE, val |-> FALSE]
            IN IF ~lx.ok THEN [ok |-> FALSE, val |-> FALSE]
               ELSE Once(fts_or(lx.toks, 1, row), whole)
    IN Once(fts_lex(q, 1, <<>>), parsed)

-----------------------------------------------------------------------------
(* The storage engine: LIKE ? ESCAPE '\' and the WHERE clause.             *)

\* pattern LIKE-matches text, with backslash as the escape character: '%' is
\* any run of characters, '_' any one character, an escaped character stands
\* for itself, an escape character ending the pattern matches nothing;
\* letters compare without regard to case
RECURSIVE like(_, _)
like(pattern, text) ==
    IF pattern = <<>> THEN text = <<>>
    ELSE IF Head(pattern) = Backslash
    THEN /\ Len(pattern) >= 2
         /\ text # <<>>
         /\ lower_char(pattern[2]) = lower_char(Head(text))
         /\ like(SubSeq(pattern, 3, Len(pattern)), Tail(text))
    ELSE IF Head(pattern) = "%"
    THEN \E k \in 0..Len(text) : like(Tail(pattern), SubSeq(text, k + 1, Len(text)))
    ELSE IF Head(pattern) = "_"
    THEN text # <<>> /\ like(Tail(pattern), Tail(text))
    ELSE /\ text # <<>>
         /\ lower_char(Head(pattern)) = lower_char(Head(text))
         /\ like(Tail(pattern), Tail(text))

SqlFail == [ok |-> FALSE, val |-> FALSE, pos |-> 0, used |-> 0]

\* the WHERE expression evaluated on one row; `used` counts the placeholders
\* bound so far, the k-th placeholder taking the k-th parameter.  OR binds
\* loosest, then AND, then NOT
RECURSIVE sql_or(_, _, _, _, _)
RECURSIVE sql_or_rest(_, _, _, _, _)
RECURSIVE sql_and(_, _, _, _, _)
RECURSIVE sql_and_rest(_, _, _, _, _)
RECURSIVE sql_not(_, _, _, _, _)

sql_not(toks, pos, used, params, row) ==
    IF pos > Len(toks) THEN SqlFail
    ELSE IF toks[pos] = "NOT"
    THEN LET negate(r) == IF r.ok THEN [r EXCEPT !.val = ~r.val] ELSE SqlFail
         IN Once(sql_not(toks, pos + 1, used, params, row), negate)
    ELSE IF toks[pos] = "("
    THEN LET close(r) == IF r.ok /\ r.pos <= Len(toks) /\ toks[r.pos] = ")"
                         THEN [r EXCEPT !.pos = r.pos + 1]
                         ELSE SqlFail
         IN Once(sql_or(toks, pos + 1, used, params, row), close)
    ELSE IF toks[pos] \in {TITLE_LIKE, SUMMARY_LIKE}
    THEN IF used + 1 > Len(params) THEN SqlFail
         ELSE [ok |-> TRUE,
               val |-> like(params[used + 1],
                            lower(IF toks[pos] = TITLE_LIKE THEN row.title
                                  ELSE row.summary)),
               pos |-> pos + 1, used |-> used + 1]
    ELSE IF toks[pos] = "1=1"
    THEN [ok |-> TRUE, val |-> TRUE, pos |-> pos + 1, used |-> used]
    ELSE SqlFail

sql_and_rest(toks, acc, pos, params, row) ==
    IF pos <= Len(toks) /\ toks[pos] = "AND"
    THEN LET more(r) ==
                 IF r.ok
                 THEN sql_and_rest(toks, [r EXCEPT !.val = acc.val /\ r.val], r.pos,
                                   params, row)
                 ELSE SqlFail
         IN Once(sql_not(toks, pos + 1, acc.used, params, row), more)
    ELSE acc

sql_and(toks, pos, used, params, row) ==
    LET more(l) == IF l.ok THEN sql_and_rest(toks, l, l.pos, params, row) ELSE SqlFail
    IN Once(sql_not(toks, pos, used, params, row), more)

sql_or_rest(toks, acc, pos, params, row) ==
    IF pos <= Len(toks) /\ toks[pos] = "OR"
    THEN LET more(r) ==
                 IF r.ok
                 THEN sql_or_rest(toks, [r EXCEPT !.val = acc.val \/ r.val], r.pos,
                                  params, row)
                 ELSE SqlFail
         IN Once(sql_and(toks, pos + 1, acc.used, params, row), more)
    ELSE acc

sql_or(toks, pos, used, params, row) ==
    LET more(l) == IF l.ok THEN sql_or_rest(toks, l, l.pos, params, row) ELSE SqlFail
    IN Once(sql_and(toks, pos, used, params, row), more)

\* WHERE where_sql with params bound, on one row: [ok |-> FALSE] is an error
\* of the statement (a malformed expression, a wrong number of bindings)
sql_where(where_sql, params, row) ==
    LET whole(r) == IF r.ok /\ r.pos = Len(where_sql) + 1 /\ r.used = Len(params)
                    THEN [ok |-> TRUE, val |-> r.val]
                    ELSE [ok |-> FALSE, val |-> FALSE]
    IN Once(sql_or(where_sql, 1, 0, params, row), whole)

\* a row no text of which holds anything: an expression is accepted or
\* rejected as a whole, whatever the table holds
BlankRow == [id |-> 0, title |-> <<>>, summary |-> <<>>, hash |-> ""]

-----------------------------------------------------------------------------
(* Database.                                                               *)

\* ORDER BY id DESC over the rows that matched: matched[i] tells whether
\* table[i] satisfies the WHERE clause
RECURSIVE ids_desc(_, _, _)
ids_desc(table, matched, i) ==
    IF i = 0 THEN <<>>
    ELSE IF matched[i] THEN <<table[i].id>> \o ids_desc(table, matched, i - 1)
    ELSE ids_desc(table, matched, i - 1)

\* LIMIT limit OFFSET offset
page_of(ids, limit, offset) ==
    SubSeq(ids, offset + 1, IF offset + limit < Len(ids) THEN offset + limit ELSE Len(ids))

\* the columns a search selects
selected(table, id) == [title |-> table[id].title, summary |-> table[id].summary]

\* the loop of insert_many: a row whose hash is stored raises IntegrityError
\* and is passed over; a stored row gets the next id
\* insert_many whose loop ends at the first row the table refuses
RECURSIVE insert_rows_stops_at_duplicate(_, _, _)
insert_rows_stops_at_duplicate(rows, table, inserted) ==
    IF rows = <<>> THEN [table |-> table, inserted |-> inserted]
    ELSE LET r == Head(rows) IN
         IF \E i \in 1..Len(table) : table[i].hash = r.hash
         THEN [table |-> table, inserted |-> inserted]
         ELSE insert_rows_stops_at_duplicate(Tail(rows),
                  Append(table, [id |-> Len(table) + 1, title |-> r.title,
                                 summary |-> r.summary, hash |-> r.hash]),
                  inserted + 1)

RECURSIVE insert_rows(_, _, _)
insert_rows(rows, table, inserted) ==
    IF rows = <<>> THEN [table |-> table, inserted |-> inserted]
    ELSE LET r == Head(rows) IN
         IF \E i \in 1..Len(table) : table[i].hash = r.hash
         THEN insert_rows(Tail(rows), table, inserted)
         ELSE insert_rows(Tail(rows),
                          Append(table, [id |-> Len(table) + 1, title |-> r.title,
                                         summary |-> r.summary, hash |-> r.hash]),
                          inserted + 1)

\* the statements of Database.search for a parsed query: the count query,
\* then the page query; a statement the engine rejects raises
search_node(a, limit, offset, table, fts) ==
    LET empty == [rows |-> <<>>, total |-> 0, exc |-> ""]
        run(st) ==
            LET accepted == IF fts THEN fts_match(st.fts_q, BlankRow).ok
                            ELSE sql_where(st.lk.sql, st.lk.params, BlankRow).ok
                matches(row) == IF fts THEN fts_match(st.fts_q, row).val
                                ELSE sql_where(st.lk.sql, st.lk.params, row).val
                fetched(ids) ==
                    LET pg == page_of(ids, limit, offset)
                    IN [ast |-> a,
                        result |-> [rows |-> [i \in 1..Len(pg) |-> selected(table, pg[i])],
                                    total |-> Len(ids), exc |-> ""],
                        issued |-> <<"connect", "count", "page", "close">>]
            IN IF ~accepted
               THEN [ast |-> a,
                     result |-> [empty EXCEPT !.exc = "OperationalError"],
                     issued |-> <<"connect", "count", "close">>]
               ELSE Once(ids_desc(table, [i \in 1..Len(table) |-> matches(table[i])],
                                  Len(table)),
                         fetched)
    IN Once(IF fts THEN [fts_q |-> build_fts_query(a)] ELSE [lk |-> build_like_sql(a)], run)

\* what Database.search(query, limit, offset) returns and the statements it
\* issues, for the table and backend given
search(query, limit, offset, table, fts) ==
    LET empty == [rows |-> <<>>, total |-> 0, exc |-> ""]
        parsed(a) ==
            IF a.kind = "Raise"
            THEN [ast |-> a, result |-> [empty EXCEPT !.exc = a.exc], issued |-> <<>>]
            ELSE IF a = None THEN [ast |-> a, result |-> empty, issued |-> <<>>]
            ELSE search_node(a, limit, offset, table, fts)
    IN IF strip(query) = <<>> THEN [ast |-> Unset, result |-> empty, issued |-> <<>>]
       ELSE Once(parse_user_query(strip(query)), parsed)

-----------------------------------------------------------------------------
(* The inputs.                                                             *)

MaxLex == 4

RECURSIVE Concat(_)
Concat(ss) == IF ss = <<>> THEN <<>> ELSE Head(ss) \o Concat(Tail(ss))

SeqsUpTo(S, n) == UNION {[1..k -> S] : k \in 0..n}

\* what a user types: words and operator keywords (each followed by a blank),
\* prefix characters, quotes and blanks, in any order
Lexemes ==
    { <<"a", " ">>, <<"B", " ">>,
      <<"A", "N", "D", " ">>, <<"o", "r", " ">>, <<"N", "O", "T", " ">>,
      <<"-">>, <<"|">>, <<"+">>, <<Quote>>, <<Space>> }

Queries == {Concat(ls) : ls \in SeqsUpTo(Lexemes, MaxLex)}

-----------------------------------------------------------------------------
(* The state machine.                                                      *)

NoResult == [rows |-> <<>>, total |-> 0, exc |-> "unset"]

\* SEARCH_CACHE = {} and an empty chat: nothing has been asked yet
EmptyCache == [k \in {} |-> <<>>]
NoAnswer == [kind |-> "none"]
NoSession ==
    /\ SEARCH_CACHE = EmptyCache
    /\ chat = <<>>
    /\ answer = NoAnswer
    /\ proc = 0
    /\ pages = <<>>

\* the feeds do_fetch collects, in the order of the FEEDS dictionary
FEEDS == <<"s1", "s2">>
FeedNames == {FEEDS[i] : i \in 1..Len(FEEDS)}

\* the callers of do_fetch: the scheduler's job and the /fetch command
Jobs == {"scheduled", "manual"}

\* added_per_source as do_fetch creates it
NoneAdded == [s \in FeedNames |-> 0]

\* no do_fetch is running and insert_many has not been called
NoFetching ==
    /\ fetch = [j \in Jobs |-> [pc |-> "idle", todo |-> <<>>, items |-> <<>>,
                                 added |-> NoneAdded]]
    /\ returned = 0

Init ==
    /\ raw \in Queries
    /\ ast = Unset
    /\ pc = "input"
    /\ news = <<>>
    /\ fts_available \in BOOLEAN
    /\ result = NoResult
    /\ storage = <<>>
    /\ NoSession
    /\ rendered = Unset
    /\ NoFetching

\* a caller applies parse_user_query to the text
ParseUserQuery ==
    /\ pc = "input"
    /\ ast' = parse_user_query(raw)
    /\ pc' = "parsed"
    /\ UNCHANGED <<raw, news, fts_available, result, storage, session, rendered, fetching>>

Next == ParseUserQuery

Spec == Init /\ [][Next]_vars

-----------------------------------------------------------------------------
(* C1.                                                                     *)

IsNode(x) == x.kind \in {"Term", "Not", "And", "Or"}

\* C1: parse_user_query is total: for every input (empty, blank, operators
\* only, bare prefix characters, unmatched quotes, any mix) it returns an AST
\* or None and never raises.
ParseTotal == pc = "parsed" => (ast = None \/ IsNode(ast))

\* a non-empty input of operators, bare prefixes and an unmatched quote has
\* been parsed to None
ParseTotalWitness ==
    /\ pc = "parsed"
    /\ raw = <<"N", "O", "T", " ", "-", Quote>>
    /\ ast = None

-----------------------------------------------------------------------------
(* Vocabulary of the statements about the parser.                          *)

\* the words the inputs are made of; the leaf of a word carries its
\* sanitized (lowercased) text
PlainWords == {<<"a">>, <<"B">>}
WordTerm(w) == Term(lower(w), FALSE)

\* tokens joined by single blanks
RECURSIVE JoinSp(_)
JoinSp(toks) ==
    IF toks = <<>> THEN <<>>
    ELSE IF Len(toks) = 1 THEN toks[1]
    ELSE toks[1] \o <<Space>> \o JoinSp(Tail(toks))

\* the tokens of the parsed text
Toks == tokenize(strip(raw))

IsOpTok(t) == upper(t) \in OPERATORS
IsBarePrefix(t) == Len(t) = 1 /\ t[1] \in PrefixChars
\* a bare word or a quoted phrase: no operator keyword, no prefix shorthand
IsTermTok(t) == ~IsOpTok(t) /\ t[1] \notin PrefixChars
IsPrefixedWord(t) == Len(t) >= 2 /\ t[1] \in PrefixChars /\ Tail(t) \in PlainWords

-----------------------------------------------------------------------------
(* C2.                                                                     *)

RECURSIVE WellFormed(_)
WellFormed(n) ==
    IF n.kind = "Term" THEN n.value # <<>>
    ELSE IF n.kind = "Not" THEN IsNode(n.node) /\ WellFormed(n.node)
    ELSE /\ n.kind \in {"And", "Or"}
         /\ Len(n.nodes) >= 2
         /\ \A i \in 1..Len(n.nodes) : IsNode(n.nodes[i]) /\ WellFormed(n.nodes[i])

\* C2: every AST parse_user_query returns is well formed: no Term has an
\* empty value, every NotNode has a surviving child, every AndNode and OrNode
\* has at least two children.
AstWellFormed == (pc = "parsed" /\ IsNode(ast)) => WellFormed(ast)

\* `a -"`: the NOT of an empty term was dropped and the And left with one
\* child was replaced by that child
AstWellFormedWitness ==
    /\ pc = "parsed"
    /\ raw = <<"a", " ", "-", Quote>>
    /\ ast = Term(<<"a">>, FALSE)

-----------------------------------------------------------------------------
(* C3.                                                                     *)

\* C3: a NOT keyword negates the atom that follows it, also directly after an
\* explicit AND or OR: "a AND NOT b" is And([a, Not(b)]) and "a OR NOT b" is
\* Or([a, Not(b)]), the same ASTs as "a -b" and "a OR -b".
NotAfterAndOr ==
    pc = "parsed" =>
        \A a, b \in PlainWords :
            /\ strip(raw) = JoinSp(<<a, STR_AND, STR_NOT, b>>)
                  => /\ ast = AndNode(<<WordTerm(a), NotNode(WordTerm(b))>>)
                     /\ ast = parse_user_query(JoinSp(<<a, <<"-">> \o b>>))
            /\ upper(strip(raw)) = upper(JoinSp(<<a, STR_OR, STR_NOT, b>>))
                  => /\ ast = OrNode(<<WordTerm(a), NotNode(WordTerm(b))>>)
                     /\ ast = parse_user_query(JoinSp(<<a, STR_OR, <<"-">> \o b>>))

-----------------------------------------------------------------------------
(* C4.                                                                     *)

IsOrTok(t) == upper(t) = STR_OR

\* the token stream split at each OR
RECURSIVE SplitAtOr(_, _, _)
SplitAtOr(toks, cur, acc) ==
    IF toks = <<>> THEN Append(acc, cur)
    ELSE IF IsOrTok(Head(toks)) THEN SplitAtOr(Tail(toks), <<>>, Append(acc, cur))
    ELSE SplitAtOr(Tail(toks), Append(cur, Head(toks)), acc)

GroupNode(g) ==
    IF Len(g) = 1 THEN WordTerm(g[1])
    ELSE AndNode([i \in 1..Len(g) |-> WordTerm(g[i])])

OrOfGroups(gs) ==
    IF Len(gs) = 1 THEN GroupNode(gs[1])
    ELSE OrNode([i \in 1..Len(gs) |-> GroupNode(gs[i])])

\* C4: AND binds tighter than OR: for a query of plain words and OR keywords
\* the AST is the Or of the groups between the ORs, in order, a group of
\* several words being the And of those words and a group of one word that
\* Term; with no OR it is the single group.
AndBindsTighter ==
    pc = "parsed" =>
        LET gs == SplitAtOr(Toks, <<>>, <<>>) IN
        ( ( /\ \A i \in 1..Len(Toks) : Toks[i] \in PlainWords \/ IsOrTok(Toks[i])
            /\ \A i \in 1..Len(gs) : gs[i] # <<>> )
          => ast = OrOfGroups(gs) )

\* "a B or a" has been parsed to Or([And([a, b]), a])
AndBindsTighterWitness ==
    /\ pc = "parsed"
    /\ raw = <<"a", " ", "B", " ", "o", "r", " ", "a", " ">>
    /\ ast = OrNode(<<AndNode(<<Term(<<"a">>, FALSE), Term(<<"b">>, FALSE)>>),
                      Term(<<"a">>, FALSE)>>)

-----------------------------------------------------------------------------
(* C5.                                                                     *)

AndSpellings == {<<"A", "N", "D">>, <<"a", "n", "d">>, <<"A", "n", "d">>}

\* kw between each adjacent pair of tokens
RECURSIVE Interleave(_, _)
Interleave(toks, kw) ==
    IF Len(toks) <= 1 THEN toks
    ELSE <<toks[1], kw>> \o Interleave(Tail(toks), kw)

\* C5: for every sequence of term tokens (bare words or quoted phrases) the
\* query with the terms separated by blanks and the query with an AND keyword,
\* in any letter case, between each adjacent pair parse to the same AST.
ImplicitAndEquivalence ==
    pc = "parsed" =>
        ( (\A i \in 1..Len(Toks) : IsTermTok(Toks[i]))
          => \A kw \in AndSpellings :
                 parse_user_query(JoinSp(Interleave(Toks, kw))) = ast )

\* the phrase "a " followed by the word B has been parsed to their And
ImplicitAndWitness ==
    /\ pc = "parsed"
    /\ raw = <<Quote, "a", " ", Quote, "B", " ">>
    /\ ast = AndNode(<<Term(<<"a">>, TRUE), Term(<<"b">>, FALSE)>>)

-----------------------------------------------------------------------------
(* C6.                                                                     *)

PrefixOp(c) == IF c = "+" THEN STR_AND ELSE IF c = "-" THEN STR_NOT ELSE STR_OR

\* the token stream with the prefixed token at i written as two tokens
ReplaceAt(toks, i) ==
    SubSeq(toks, 1, i - 1) \o <<PrefixOp(toks[i][1]), Tail(toks[i])>>
        \o SubSeq(toks, i + 1, Len(toks))

\* C6: for every plain word w, "-w" is Not(Term(w)) and equals "NOT w"; "+w"
\* equals "w"; and inside a longer query each prefixed token +w, -w, |w parses
\* like the two tokens AND w, NOT w, OR w in its place.
PrefixEquivalence ==
    pc = "parsed" =>
        /\ \A w \in PlainWords :
              /\ Toks = << <<"-">> \o w >>
                    => /\ ast = NotNode(WordTerm(w))
                       /\ ast = parse_user_query(JoinSp(<<STR_NOT, w>>))
              /\ Toks = << <<"+">> \o w >> => ast = parse_user_query(w)
        /\ \A i \in 1..Len(Toks) :
              IsPrefixedWord(Toks[i])
              => ast = parse_user_query(JoinSp(ReplaceAt(Toks, i)))

\* "a |B" has been parsed to Or([a, b])
PrefixEquivalenceWitness ==
    /\ pc = "parsed"
    /\ raw = <<"a", " ", "|", "B", " ">>
    /\ ast = OrNode(<<Term(<<"a">>, FALSE), Term(<<"b">>, FALSE)>>)

-----------------------------------------------------------------------------
(* C8.                                                                     *)

\* an atom of the grammar: a word or phrase with something to search for
IsAtom(t) == IsTermTok(t) /\ \E i \in 1..Len(t) : TermChar(t[i])

\* query := group (OR group)*; group := item (AND? item)*;
\* item := NOT? atom | prefixed.  st is "item" (an item must follow), "atom"
\* (the operand of NOT must follow) or "done" (an item has just ended)
RECURSIVE Derives(_, _)
Derives(toks, st) ==
    IF toks = <<>> THEN st = "done"
    ELSE LET t == Head(toks) IN
         IF st = "atom" THEN IsAtom(t) /\ Derives(Tail(toks), "done")
         ELSE IF IsAtom(t) \/ IsPrefixedWord(t) THEN Derives(Tail(toks), "done")
         ELSE IF upper(t) = STR_NOT THEN Derives(Tail(toks), "atom")
         ELSE /\ st = "done"
              /\ upper(t) \in {STR_AND, STR_OR}
              /\ Derives(Tail(toks), "item")

ValidExpr(toks) == Derives(toks, "item")

\* C8: dangling operators degrade: a query of operator keywords and bare
\* prefix characters only yields no node; a NOT with no following token is
\* dropped; a leading or trailing OR (or AND) around a valid expression e
\* yields the AST of e alone.
DanglingOperators ==
    pc = "parsed" =>
        LET n == Len(Toks) IN
        /\ (\A i \in 1..n : IsOpTok(Toks[i]) \/ IsBarePrefix(Toks[i])) => ast = None
        /\ (n >= 1 /\ upper(Toks[n]) = STR_NOT)
              => ast = parse_user_query(JoinSp(SubSeq(Toks, 1, n - 1)))
        /\ (n >= 2 /\ upper(Toks[1]) \in {STR_AND, STR_OR} /\ ValidExpr(Tail(Toks)))
              => ast = parse_user_query(JoinSp(Tail(Toks)))
        /\ (n >= 2 /\ upper(Toks[n]) \in {STR_AND, STR_OR}
                   /\ ValidExpr(SubSeq(Toks, 1, n - 1)))
              => ast = parse_user_query(JoinSp(SubSeq(Toks, 1, n - 1)))

-----------------------------------------------------------------------------
(* C7.                                                                     *)

MaxInner == 4

\* what stands between the quotes: letters, blanks, line breaks, other signs
PhraseChars == {"a", "B", Space, "%", Newline}

InitPhrase ==
    /\ raw \in {<<Quote>> \o inner \o <<Quote>> : inner \in SeqsUpTo(PhraseChars, MaxInner)}
    /\ ast = Unset
    /\ pc = "input"
    /\ news = <<>>
    /\ fts_available \in BOOLEAN
    /\ result = NoResult
    /\ storage = <<>>
    /\ NoSession
    /\ rendered = Unset
    /\ NoFetching

SpecPhrase == InitPhrase /\ [][Next]_vars

\* the maximal runs of allowed characters of s, lowercased
RECURSIVE AllowedRuns(_, _, _)
AllowedRuns(s, cur, acc) ==
    IF s = <<>> THEN (IF cur = <<>> THEN acc ELSE Append(acc, cur))
    ELSE IF TermChar(Head(s))
         THEN AllowedRuns(Tail(s), Append(cur, lower_char(Head(s))), acc)
    ELSE AllowedRuns(Tail(s), <<>>, IF cur = <<>> THEN acc ELSE Append(acc, cur))

\* C7: a query that is one double-quoted run with a matching closing quote
\* and an allowed character inside yields a single phrase Term: the lowercased
\* inner text, every run of whitespace or disallowed characters collapsed to
\* one blank, none leading or trailing; the words inside are never split.
PhrasePreserved ==
    LET n == Len(raw) IN
    ( /\ pc = "parsed"
      /\ n >= 3 /\ raw[1] = Quote /\ raw[n] = Quote
      /\ \A i \in 2..(n - 1) : raw[i] # Quote
      /\ \E i \in 2..(n - 1) : TermChar(raw[i]) )
    => ast = Term(JoinSp(AllowedRuns(SubSeq(raw, 2, n - 1), <<>>, <<>>)), TRUE)

\* the same, for inner text without a line break
PhrasePreservedOnOneLine ==
    LET n == Len(raw) IN
    ( /\ pc = "parsed"
      /\ n >= 3 /\ raw[1] = Quote /\ raw[n] = Quote
      /\ \A i \in 2..(n - 1) : raw[i] # Quote /\ raw[i] # Newline
      /\ \E i \in 2..(n - 1) : TermChar(raw[i]) )
    => ast = Term(JoinSp(AllowedRuns(SubSeq(raw, 2, n - 1), <<>>, <<>>)), TRUE)

-----------------------------------------------------------------------------
(* Searching the stored news.                                              *)

MaxSearchLex == 3
MaxBatch == 2
MaxLimit == 2
MaxOffset == 1

\* the query text /filter hands to Database.search
SearchLexemes == { <<"a", " ">>, <<"b", " ">>, <<"o", "r", " ">>, <<"-">>, <<Space>> }
SearchQueries == {Concat(ls) : ls \in SeqsUpTo(SearchLexemes, MaxSearchLex)}

\* the items the feeds deliver
FeedItems ==
    { [title |-> <<"a", "b">>, summary |-> <<>>, hash |-> "h1"],
      [title |-> <<"A">>, summary |-> <<"b">>, hash |-> "h2"],
      [title |-> <<"c">>, summary |-> <<>>, hash |-> "h3"] }

InitSearch ==
    /\ raw \in SearchQueries
    /\ ast = Unset
    /\ pc = "input"
    /\ news = <<>>
    /\ fts_available \in BOOLEAN
    /\ result = NoResult
    /\ storage = <<>>
    /\ NoSession
    /\ rendered = Unset
    /\ NoFetching

\* insert_many that gives up the full-text backend while it stores rows
InsertMany_drops_fts(rows) ==
    /\ pc = "input"
    /\ rows # <<>>
    /\ \E r \in {insert_rows(rows, news, 0)} :
          /\ news' = r.table
          /\ returned' = returned + r.inserted
    /\ fts_available' = FALSE
    /\ UNCHANGED <<raw, ast, pc, result, storage, session, rendered, fetch>>

\* Database.insert_many(rows)
InsertMany(rows) ==
    /\ pc = "input"
    /\ rows # <<>>
    /\ \E r \in {insert_rows(rows, news, 0)} :
          /\ news' = r.table
          /\ returned' = returned + r.inserted
    /\ UNCHANGED <<raw, ast, pc, fts_available, result, storage, session, rendered, fetch>>

\* Database.search(raw, limit, offset)
Search(limit, offset) ==
    /\ pc = "input"
    /\ \E r \in {search(raw, limit, offset, news, fts_available)} :
          /\ ast' = r.ast
          /\ result' = r.result
          /\ storage' = storage \o r.issued
    /\ pc' = "searched"
    /\ UNCHANGED <<raw, news, fts_available, session, rendered, fetching>>

NextSearch ==
    \/ \E rows \in SeqsUpTo(FeedItems, MaxBatch) : InsertMany(rows)
    \/ \E limit \in 1..MaxLimit, offset \in 0..MaxOffset : Search(limit, offset)

SpecSearch == InitSearch /\ [][NextSearch]_vars

-----------------------------------------------------------------------------
(* C9.                                                                     *)

EmptyResult == [rows |-> <<>>, total |-> 0, exc |-> ""]

\* C9: Database.search returns an empty page and total 0 without opening a
\* storage connection when the query text is empty or parses to no node; when
\* parsing yields a node it runs the count query and the page query against
\* storage, also when nothing matches.
SearchTouchesStorageIffNode ==
    pc = "searched" =>
        LET parsed == parse_user_query(raw) IN
        /\ (strip(raw) = <<>> \/ parsed = None)
              => result = EmptyResult /\ storage = <<>>
        /\ IsNode(parsed) => storage = <<"connect", "count", "page", "close">>

\* the first half of C9 alone
NoNodeNoStorage ==
    (pc = "searched" /\ (strip(raw) = <<>> \/ parse_user_query(raw) = None))
    => result = EmptyResult /\ storage = <<>>

\* the second half of C9 on the substring backend
LikeBackendRunsBothQueries ==
    (pc = "searched" /\ ~fts_available /\ IsNode(parse_user_query(raw)))
    => storage = <<"connect", "count", "page", "close">> /\ result.exc = ""

-----------------------------------------------------------------------------
(* C10.                                                                    *)

\* only non-phrase Terms under And / Or
RECURSIVE PlainAndOr(_)
PlainAndOr(n) ==
    IF n.kind = "Term" THEN ~n.phrase
    ELSE /\ n.kind \in {"And", "Or"}
         /\ \A i \in 1..Len(n.nodes) : PlainAndOr(n.nodes[i])

FtsMatched(a, table) ==
    {table[i].id : i \in {j \in 1..Len(table) : fts_match(build_fts_query(a), table[j]).val}}

LikeMatched(a, table) ==
    {table[i].id : i \in {j \in 1..Len(table) :
        sql_where(build_like_sql(a).sql, build_like_sql(a).params, table[j]).val}}

\* C10: for every AST of non-phrase Terms under And / Or and every dataset,
\* the rows the build_fts_query string matches in the full-text index are the
\* rows the build_like_sql condition matches with its parameters.
RendererAgreement ==
    (pc = "searched" /\ IsNode(ast) /\ PlainAndOr(ast))
    => FtsMatched(ast, news) = LikeMatched(ast, news)

-----------------------------------------------------------------------------
(* C11.                                                                    *)

MaxTermLen == 3
MaxTextLen == 3

\* one-token query texts of letters, the LIKE wildcards and the escape sign
TermTexts == SeqsUpTo({"a", "_", "%", Backslash}, MaxTermLen) \ {<<>>}

\* titles of stored rows holding the same signs
TitleTexts == SeqsUpTo({"a", "b", "_", "%", Backslash}, MaxTextLen)

InitLike ==
    /\ raw \in TermTexts
    /\ ast = Unset
    /\ pc = "input"
    /\ news \in {<<[id |-> 1, title |-> t, summary |-> <<>>, hash |-> "h1"]>> :
                    t \in TitleTexts}
    /\ fts_available = FALSE
    /\ result = NoResult
    /\ storage = <<>>
    /\ NoSession
    /\ rendered = Unset
    /\ NoFetching

\* the first page of the search, as /filter asks for it
NextLike == \E limit \in 1..MaxLimit : Search(limit, 0)

SpecLike == InitLike /\ [][NextLike]_vars

\* v occurs in text as a literal substring
Contains(text, v) ==
    \E i \in 1..(Len(text) - Len(v) + 1) : SubSeq(text, i, i + Len(v) - 1) = v

\* C11: for every Term value sanitize_term can produce, the LIKE pattern of
\* build_like_sql (with ESCAPE '\') matches a text exactly when the text
\* contains the value as a literal substring: no '%' or '_' of the value acts
\* as a wildcard, whatever precedes it in the value.
LikeMatchesLiteralSubstring ==
    (pc = "searched" /\ ast.kind = "Term" /\ result.exc = "")
    => (result.total = 1 <=> \/ Contains(lower(news[1].title), ast.value)
                             \/ Contains(lower(news[1].summary), ast.value))

\* the same, for values that hold no backslash
LikeLiteralWithoutBackslash ==
    (pc = "searched" /\ ast.kind = "Term" /\ result.exc = ""
        /\ \A i \in 1..Len(ast.value) : ast.value[i] # Backslash)
    => (result.total = 1 <=> \/ Contains(lower(news[1].title), ast.value)
                             \/ Contains(lower(news[1].summary), ast.value))

-----------------------------------------------------------------------------
(* The chat session: /filter and the pagination callbacks.                 *)

MaxMessages == 2
MaxRestarts == 1
SearchPageSize == 1

\* the query texts of the session, character by character
NTBRT == <<"n", "t", "b", "r", "t">>
ADANOO == <<"a", "d", "a", "n", "o", "o">>
CAT == <<"c", "a", "t">>
MINUS_A == <<"-", "a">>

\* hashlib.sha1(norm.encode("utf-8")).hexdigest()[:8] on the normalized query
\* texts of the session; the digests are those SHA-1 gives
sha1_hexdigest8(norm) ==
    CASE norm = NTBRT -> "12673ab7"
      [] norm = ADANOO -> "12673ab7"
      [] norm = CAT -> "9d989e8d"
      [] norm = MINUS_A -> "6db1fada"

\* what follows "/filter " in a message: nothing, or a query text in some
\* letter case with blanks around it
FilterTexts ==
    { <<Space>>, NTBRT, <<"N", "T", "b", "r", "t", Space>>, ADANOO, CAT, MINUS_A }

\* the news stored when the session begins
SessionNews ==
    << [id |-> 1, title |-> NTBRT, summary |-> <<>>, hash |-> "h1"],
       [id |-> 2, title |-> NTBRT \o <<Space>> \o ADANOO, summary |-> <<>>, hash |-> "h2"],
       [id |-> 3, title |-> CAT, summary |-> NTBRT, hash |-> "h3"] >>

\* FilterPage(key, offset, limit), the callback data of a navigation button
FilterPage(key, offset, limit) == [key |-> key, offset |-> offset, limit |-> limit]

\* the navigation buttons of build_search_keyboard
build_search_keyboard(key, offset, limit, total) ==
    (IF offset > 0
     THEN {FilterPage(key, IF offset - limit > 0 THEN offset - limit ELSE 0, limit)}
     ELSE {})
    \cup (IF offset + limit < total THEN {FilterPage(key, offset + limit, limit)} ELSE {})

\* a search message as the chat shows it: the header's query text, the page
\* and its navigation buttons; proc is the process that wrote it
search_message(norm, key, offset, limit, res) ==
    [header |-> norm, offset |-> offset, rows |-> res.rows, total |-> res.total,
     buttons |-> build_search_keyboard(key, offset, limit, res.total), proc |-> proc]

InitSession ==
    /\ raw = <<>>
    /\ ast = Unset
    /\ pc = "idle"
    /\ news = SessionNews
    /\ fts_available \in BOOLEAN
    /\ result = NoResult
    /\ storage = <<>>
    /\ NoSession
    /\ rendered = Unset
    /\ NoFetching

\* filter_cmd on the message "/filter " \o text
FilterCmd(text) ==
    /\ Len(chat) < MaxMessages
    /\ IF strip(text) = <<>>
       THEN /\ answer' = [kind |-> "usage"]
            /\ UNCHANGED <<raw, ast, result, storage, SEARCH_CACHE, chat>>
       ELSE \E norm \in {lower(strip(text))} :
            \E key \in {sha1_hexdigest8(norm)},
               r \in {search(norm, SearchPageSize, 0, news, fts_available)} :
               /\ SEARCH_CACHE' = [k \in DOMAIN SEARCH_CACHE \cup {key} |->
                                      IF k = key THEN norm ELSE SEARCH_CACHE[k]]
               /\ raw' = norm
               /\ ast' = r.ast
               /\ result' = r.result
               /\ storage' = r.issued
               /\ IF r.result.exc # ""
                  THEN /\ answer' = [kind |-> "raised", exc |-> r.result.exc]
                       /\ chat' = chat
                  ELSE /\ answer' = [kind |-> "reply", key |-> key, norm |-> norm]
                       /\ chat' = Append(chat, search_message(norm, key, 0, SearchPageSize,
                                                              r.result))
    /\ UNCHANGED <<pc, news, fts_available, proc, pages, rendered, fetching>>

\* the "fs:" branch of pagination_callback up to the search: the expired
\* session when the key is unknown, else the cached text and its page
filter_page_unknown_as_empty(data, cache, table, fts) ==
    LET norm == IF data.key \in DOMAIN cache THEN cache[data.key] ELSE <<>>
    IN [kind |-> "page", norm |-> norm,
        r |-> search(norm, data.limit, data.offset, table, fts)]

filter_page(data, cache, table, fts) ==
    IF data.key \notin DOMAIN cache
    THEN [kind |-> "expired"]
    ELSE [kind |-> "page", norm |-> cache[data.key],
          r |-> search(cache[data.key], data.limit, data.offset, table, fts)]

\* pagination_callback on a navigation button of message m; the edit of the
\* message may fail, and the page is then sent as a new message
PaginationCallback(m, data, editable) ==
    /\ m \in 1..Len(chat)
    /\ data \in chat[m].buttons
    /\ editable \/ Len(chat) < MaxMessages
    /\ \E p \in {filter_page(data, SEARCH_CACHE, news, fts_available)} :
       IF p.kind = "expired"
       THEN /\ answer' = [kind |-> "expired", data |-> data, from |-> chat[m]]
            /\ UNCHANGED <<raw, ast, result, storage, chat>>
       ELSE /\ raw' = p.norm
            /\ ast' = p.r.ast
            /\ result' = p.r.result
            /\ storage' = p.r.issued
            /\ IF p.r.result.exc # ""
               THEN /\ answer' = [kind |-> "raised", exc |-> p.r.result.exc]
                    /\ chat' = chat
               ELSE LET msg == search_message(p.norm, data.key, data.offset, data.limit,
                                              p.r.result)
                    IN /\ answer' = [kind |-> "page", data |-> data, from |-> chat[m],
                                     norm |-> p.norm]
                       /\ chat' = IF editable THEN [chat EXCEPT ![m] = msg]
                                  ELSE Append(chat, msg)
    /\ UNCHANGED <<pc, news, fts_available, SEARCH_CACHE, proc, pages, rendered, fetching>>

\* pagination_callback on the "fs:close" button: the keyboard is taken away
CloseCallback(m) ==
    /\ m \in 1..Len(chat)
    /\ chat' = [chat EXCEPT ![m].buttons = {}]
    /\ answer' = [kind |-> "closed"]
    /\ UNCHANGED <<raw, ast, pc, news, fts_available, result, storage, SEARCH_CACHE,
                   proc, pages, rendered, fetching>>

\* the bot process ends and is started again: setup_handlers makes a new
\* SEARCH_CACHE, the messages stay in the chat
Restart ==
    /\ proc < MaxRestarts
    /\ proc' = proc + 1
    /\ SEARCH_CACHE' = EmptyCache
    /\ answer' = NoAnswer
    /\ UNCHANGED <<raw, ast, pc, news, fts_available, result, storage, chat, pages, rendered, fetching>>

\* the navigation buttons the chat shows
Buttons == UNION {chat[i].buttons : i \in 1..Len(chat)}

NextSession ==
    \/ \E text \in FilterTexts : FilterCmd(text)
    \/ \E m \in 1..MaxMessages, data \in Buttons, editable \in BOOLEAN :
          PaginationCallback(m, data, editable)
    \/ \E m \in 1..MaxMessages : CloseCallback(m)
    \/ Restart

SpecSession == InitSession /\ [][NextSession]_vars

-----------------------------------------------------------------------------
(* C12.                                                                    *)

\* C12: once /filter has registered text t under key k, every later
\* pagination callback carrying k in the same process resolves to exactly t
\* and searches with t, whatever other texts /filter registers in between;
\* the entry is there before the reply is sent and is never removed.
CallbackResolvesRegisteredText ==
    /\ (answer.kind = "page" /\ answer.from.proc = proc)
          => (answer.norm = answer.from.header /\ raw = answer.from.header)
    /\ answer.kind = "expired" => answer.from.proc # proc

\* the part of C12 about the entry's lifetime: the key of every button sent
\* by the running process is in the cache
RegisteredKeysStay ==
    \A i \in 1..Len(chat) :
        chat[i].proc = proc => \A b \in chat[i].buttons : b.key \in DOMAIN SEARCH_CACHE

-----------------------------------------------------------------------------
(* C13.                                                                    *)

\* C13: a pagination callback whose key is not in the session cache ends in
\* the "search session expired, repeat /filter" outcome: no search is made,
\* no result page is shown, the cache and the displayed messages stay as
\* they are.
UnknownKeyExpires ==
    [][ \A m \in 1..Len(chat), data \in Buttons, editable \in BOOLEAN :
          (PaginationCallback(m, data, editable) /\ data.key \notin DOMAIN SEARCH_CACHE)
          => /\ answer'.kind = "expired"
             /\ UNCHANGED <<SEARCH_CACHE, chat, raw, ast, result, storage>> ]_vars

\* a button written before the process was started again has been pressed
\* and met the expired session
UnknownKeyExpiresWitness ==
    /\ answer.kind = "expired"
    /\ answer.data.key \notin DOMAIN SEARCH_CACHE
    /\ chat # <<>>
    /\ proc = 1

-----------------------------------------------------------------------------
(* C14.                                                                    *)

MaxPages == 3

\* the query a reader pages through
PagingQueries == { <<"a">>, <<"b">>, <<"a", " ", "o", "r", " ", "c">> }

InitPaging ==
    /\ raw \in PagingQueries
    /\ ast = Unset
    /\ pc = "input"
    /\ news = <<>>
    /\ fts_available \in BOOLEAN
    /\ result = NoResult
    /\ storage = <<>>
    /\ NoSession
    /\ rendered = Unset
    /\ NoFetching

\* the reader's next call: Database.search(raw, L, offset) with the offset
\* grown by the page size L from call to call
FetchPage ==
    /\ Len(pages) < MaxPages
    /\ \E r \in {search(raw, SearchPageSize, Len(pages) * SearchPageSize, news,
                        fts_available)} :
          /\ ast' = r.ast
          /\ result' = r.result
          /\ storage' = r.issued
          /\ pages' = Append(pages, r.result.rows)
    /\ UNCHANGED <<raw, pc, news, fts_available, SEARCH_CACHE, chat, answer, proc, rendered, fetching>>

\* the fetch job stores rows between the reader's calls
NextPaging ==
    \/ \E rows \in SeqsUpTo(FeedItems, MaxBatch) : InsertMany(rows)
    \/ FetchPage

SpecPaging == InitPaging /\ [][NextPaging]_vars

\* the id of a returned record (the feed items differ in their titles)
RowId(row) == CHOOSE i \in 1..Len(news) : news[i].title = row.title

\* C14: for the same query and page size, the pages fetched at offsets 0, L,
\* 2L, ... show the matching records newest first, none on two pages and
\* none skipped, however the calls interleave with insert_many.
PagingStable ==
    LET shown == Concat(pages)
        ids == [i \in 1..Len(shown) |-> RowId(shown[i])]
        matching == IF fts_available THEN FtsMatched(ast, news) ELSE LikeMatched(ast, news)
    IN /\ \A i, j \in 1..Len(ids) : i < j => ids[i] > ids[j]
       /\ (pages # <<>> /\ Len(pages[Len(pages)]) < SearchPageSize /\ shown # <<>>)
             => {id \in matching : id <= ids[1]} \subseteq {ids[i] : i \in 1..Len(ids)}

-----------------------------------------------------------------------------
(* C15.                                                                    *)

MaxDepth == 2

\* the leaves of the rendered ASTs: a word, and a phrase holding a wildcard sign
RenderTerms == {Term(<<"a">>, FALSE), Term(<<"b", "_">>, TRUE)}

\* the ASTs of at most d levels above the leaves, in any nesting of Not, And
\* and Or; of the two children of a composite, one is of the full depth and
\* the other at most one level above the leaves
RECURSIVE AstsOfDepth(_)
AstsOfDepth(d) ==
    IF d = 0 THEN RenderTerms
    ELSE LET sub == AstsOfDepth(d - 1)
             low == AstsOfDepth(IF d = 1 THEN 0 ELSE 1)
         IN sub \cup {NotNode(n) : n \in sub}
                \cup {AndNode(<<x, y>>) : x \in sub, y \in low}
                \cup {AndNode(<<y, x>>) : x \in sub, y \in low}
                \cup {OrNode(<<x, y>>) : x \in sub, y \in low}
                \cup {OrNode(<<y, x>>) : x \in sub, y \in low}

\* composites of three leaves
TripleNodes ==
    {AndNode(<<x, y, z>>) : x \in RenderTerms, y \in RenderTerms, z \in RenderTerms}
    \cup {OrNode(<<x, y, z>>) : x \in RenderTerms, y \in RenderTerms, z \in RenderTerms}

InitRender ==
    /\ raw = <<>>
    /\ ast \in AstsOfDepth(MaxDepth) \cup TripleNodes
    /\ pc = "ast"
    /\ news = <<>>
    /\ fts_available = FALSE
    /\ result = NoResult
    /\ storage = <<>>
    /\ NoSession
    /\ rendered = Unset
    /\ NoFetching

\* a caller applies build_like_sql to the AST
BuildLikeSql ==
    /\ pc = "ast"
    /\ rendered' = build_like_sql(ast)
    /\ pc' = "rendered"
    /\ UNCHANGED <<raw, ast, news, fts_available, result, storage, session, fetching>>

NextRender == BuildLikeSql

SpecRender == InitRender /\ [][NextRender]_vars

\* the Term leaves of an AST, left to right
RECURSIVE Leaves(_)
Leaves(n) ==
    IF n.kind = "Term" THEN <<n>>
    ELSE IF n.kind = "Not" THEN Leaves(n.node)
    ELSE Join([i \in 1..Len(n.nodes) |-> Leaves(n.nodes[i])], <<>>)

\* the rows the rendered condition is tried on
ProbeRows ==
    { [id |-> 1, title |-> t, summary |-> u, hash |-> "h1"] :
        t \in {<<>>, <<"a">>, <<"b", "_">>, <<"b", "c">>}, u \in {<<>>, <<"a">>} }

\* what an AST says of a row, each Term tried by its own pattern
RECURSIVE HoldsOn(_, _)
HoldsOn(n, row) ==
    IF n.kind = "Term"
    THEN LET pattern == <<"%">> \o esc(n.value) \o <<"%">>
         IN like(pattern, lower(row.title)) \/ like(pattern, lower(row.summary))
    ELSE IF n.kind = "Not" THEN ~HoldsOn(n.node, row)
    ELSE IF n.kind = "And" THEN \A i \in 1..Len(n.nodes) : HoldsOn(n.nodes[i], row)
    ELSE \E i \in 1..Len(n.nodes) : HoldsOn(n.nodes[i], row)

\* C15: for every AST, the expression of build_like_sql has as many '?'
\* placeholders as the parameter list has entries, two per Term leaf, and the
\* i-th parameter is the pattern of the Term the i-th placeholder belongs
\* to, left to right, through any nesting: bound by position, the expression
\* says of every row what the AST says.
LikePlaceholdersMatchParams ==
    pc = "rendered" =>
        LET leaves == Leaves(ast)
            holders == {i \in 1..Len(rendered.sql) :
                           rendered.sql[i] \in {TITLE_LIKE, SUMMARY_LIKE}}
        IN /\ Cardinality(holders) = Len(rendered.params)
           /\ Len(rendered.params) = 2 * Len(leaves)
           /\ \A i \in 1..Len(rendered.params) :
                 rendered.params[i] = <<"%">> \o esc(leaves[(i + 1) \div 2].value) \o <<"%">>
           /\ \A row \in ProbeRows :
                 sql_where(rendered.sql, rendered.params, row)
                     = [ok |-> TRUE, val |-> HoldsOn(ast, row)]

\* a nested AST of two different leaves has been rendered
LikePlaceholdersWitness ==
    /\ pc = "rendered"
    /\ ast = AndNode(<<NotNode(Term(<<"a">>, FALSE)),
                       OrNode(<<Term(<<"b", "_">>, TRUE), Term(<<"a">>, FALSE)>>)>>)
    /\ Len(rendered.params) = 6
    /\ rendered.params[3] = <<"%", "b", Backslash, "_", "%">>

-----------------------------------------------------------------------------
(* C16.                                                                    *)

MaxWordLen == 4

\* query texts written sign by sign: letters, the signs the sanitizer keeps,
\* a sign it replaces, quotes and blanks
WordChars == {"a", "B", "_", "-", "%", Backslash, Quote, Space}

InitWords ==
    /\ raw \in SeqsUpTo(WordChars, MaxWordLen)
    /\ ast = Unset
    /\ pc = "input"
    /\ news = <<>>
    /\ fts_available \in BOOLEAN
    /\ result = NoResult
    /\ storage = <<>>
    /\ NoSession
    /\ rendered = Unset
    /\ NoFetching

SpecWords == InitWords /\ [][Next]_vars

\* C16: every Term value of a returned AST is lowercase and made only of
\* digits, Latin and Cyrillic letters, underscore and hyphen, with no leading
\* or trailing space; single internal spaces occur only in phrase Terms.
TermValuesClean ==
    (pc = "parsed" /\ IsNode(ast)) =>
        \A k \in 1..Len(Leaves(ast)) :
            LET t == Leaves(ast)[k]
                v == t.value
            IN /\ \A i \in 1..Len(v) : v[i] \in LowerLetters \cup {"_", "-", Space}
               /\ v # <<>> => (v[1] # Space /\ v[Len(v)] # Space)
               /\ \A i \in 1..(Len(v) - 1) : ~(v[i] = Space /\ v[i + 1] = Space)
               /\ (\E i \in 1..Len(v) : v[i] = Space) => t.phrase

\* the part of C16 that needs neither the character set nor the phrase
\* flag: values are lowercase, trimmed, with single spaces only
TermValuesTrimmed ==
    (pc = "parsed" /\ IsNode(ast)) =>
        \A k \in 1..Len(Leaves(ast)) :
            LET v == Leaves(ast)[k].value
            IN /\ lower(v) = v
               /\ v # <<>> => (v[1] # Space /\ v[Len(v)] # Space)
               /\ \A i \in 1..(Len(v) - 1) : ~(v[i] = Space /\ v[i + 1] = Space)

-----------------------------------------------------------------------------
(* C17.                                                                    *)

\* a prefix sign written directly before a quoted run, alone or after a word
InitPrefixed ==
    /\ raw \in {before \o <<sign, Quote>> \o inner \o <<Quote>> :
                   before \in {<<>>, <<"a", Space>>},
                   sign \in PrefixChars,
                   inner \in SeqsUpTo({"a", "B", Space}, MaxInner)}
    /\ ast = Unset
    /\ pc = "input"
    /\ news = <<>>
    /\ fts_available \in BOOLEAN
    /\ result = NoResult
    /\ storage = <<>>
    /\ NoSession
    /\ rendered = Unset
    /\ NoFetching

SpecPrefixed == InitPrefixed /\ [][Next]_vars

\* C17: a prefix shorthand written directly before a quoted phrase of
\* several words applies to the whole phrase: -"x y" yields
\* Not(Term("x y", phrase)), and +"x y" and |"x y" contribute the one phrase
\* Term "x y" under AND and OR.
PrefixAppliesToPhrase ==
    pc = "parsed" =>
        LET off == IF raw[1] = "a" THEN 2 ELSE 0
            sign == raw[off + 1]
            inner == SubSeq(raw, off + 3, Len(raw) - 1)
            phrase == Term(sanitize_term(inner), TRUE)
            word == Term(<<"a">>, FALSE)
            item == IF sign = "-" THEN NotNode(phrase) ELSE phrase
        IN (\E i \in 2..(Len(strip(inner)) - 1) : strip(inner)[i] = Space)
           => IF off = 0 THEN ast = item
              ELSE IF sign = "|" THEN ast = OrNode(<<word, item>>)
              ELSE ast = AndNode(<<word, item>>)

-----------------------------------------------------------------------------
(* C18.                                                                    *)

\* a token made of a prefix sign and text that spells an operator keyword
IsPrefixedKeyword(t) ==
    Len(t) >= 2 /\ t[1] \in PrefixChars /\ upper(Tail(t)) \in OPERATORS

\* C18: the remainder of a prefixed token is a bare word, never an operator:
\* for a token of '+', '-' or '|' followed by text spelling AND, OR or NOT in
\* any letter case, the AST holds a Term leaf for that text ("cat -not"
\* yields And([Term("cat"), Not(Term("not"))])).
PrefixedKeywordIsWord ==
    pc = "parsed" =>
        \A i \in 1..Len(Toks) :
            IsPrefixedKeyword(Toks[i])
            => /\ IsNode(ast)
               /\ \E k \in 1..Len(Leaves(ast)) :
                     Leaves(ast)[k] = Term(lower(Tail(Toks[i])), FALSE)

-----------------------------------------------------------------------------
(* C19.                                                                    *)

\* the rows of the table newest first, as the columns a caller gets; the
\* feed items of the model carry no publication date and come from one
\* source, so ORDER BY datetime(published) DESC, id DESC is the order of ids
newest_first(table) == [i \in 1..Len(table) |-> selected(table, Len(table) + 1 - i)]

\* Database.latest(limit)
Latest(limit) ==
    /\ pc = "input"
    /\ result' = [rows |-> SubSeq(newest_first(news), 1,
                                  IF limit < Len(news) THEN limit ELSE Len(news)),
                  total |-> 0, exc |-> ""]
    /\ storage' = <<"connect", "latest", "close">>
    /\ UNCHANGED <<raw, ast, pc, news, fts_available, session, rendered, fetching>>

\* Database.latest_page(offset, limit)
LatestPage(offset, limit) ==
    /\ pc = "input"
    /\ result' = [rows |-> SubSeq(newest_first(news), offset + 1,
                                  IF offset + limit < Len(news) THEN offset + limit
                                  ELSE Len(news)),
                  total |-> 0, exc |-> ""]
    /\ storage' = <<"connect", "latest_page", "close">>
    /\ UNCHANGED <<raw, ast, pc, news, fts_available, session, rendered, fetching>>

\* Database.count_by_source()
CountBySource ==
    /\ pc = "input"
    /\ result' = [rows |-> IF news = <<>> THEN <<>>
                           ELSE <<[source |-> "feed", count |-> Len(news)]>>,
                  total |-> 0, exc |-> ""]
    /\ storage' = <<"connect", "count_by_source", "close">>
    /\ UNCHANGED <<raw, ast, pc, news, fts_available, session, rendered, fetching>>

\* Database.total()
Total ==
    /\ pc = "input"
    /\ result' = [rows |-> <<>>, total |-> Len(news), exc |-> ""]
    /\ storage' = <<"connect", "total", "close">>
    /\ UNCHANGED <<raw, ast, pc, news, fts_available, session, rendered, fetching>>

\* the operations of one Database object, in any order
NextDatabase ==
    \/ \E rows \in SeqsUpTo(FeedItems, MaxBatch) : InsertMany(rows)
    \/ FetchPage
    \/ \E limit \in 1..MaxLimit : Latest(limit)
    \/ \E offset \in 0..MaxOffset, limit \in 1..MaxLimit : LatestPage(offset, limit)
    \/ CountBySource
    \/ Total

SpecDatabase == InitPaging /\ [][NextDatabase]_vars

\* C19: the retrieval backend is fixed at startup: no operation after the
\* constructor (search, insert_many, latest, latest_page, total,
\* count_by_source) changes _fts_available, and every search uses
\* build_fts_query exactly when it is true and build_like_sql otherwise, so
\* all searches of one process use the same renderer.
BackendFixedAtStartup ==
    [][ /\ fts_available' = fts_available
        /\ pages' # pages
             => /\ result'.exc = ""
                /\ result'.total =
                     Cardinality(IF fts_available THEN FtsMatched(ast', news)
                                 ELSE LikeMatched(ast', news)) ]_vars

\* after other operations, a second search has run on the substring backend
\* and counted the rows only that backend matches
BackendFixedWitness ==
    /\ Len(pages) = 2
    /\ ~fts_available
    /\ raw = <<"a">>
    /\ Len(news) = 3
    /\ storage = <<"connect", "count", "page", "close">>
    /\ result.total = 2

-----------------------------------------------------------------------------
(* C20.                                                                    *)

MaxShapeLex == 4

\* words, prefixed words, quoted phrases and operator keywords, each followed
\* by a blank
ShapeLexemes ==
    { <<"a", Space>>, <<"-", "b", Space>>, <<"+", "a", Space>>, <<"|", "b", Space>>,
      <<Quote, "a", Space, "b", Quote, Space>>,
      <<"o", "r", Space>>, <<"A", "N", "D", Space>>, <<"N", "O", "T", Space>> }

InitShape ==
    /\ raw \in {Concat(ls) : ls \in SeqsUpTo(ShapeLexemes, MaxShapeLex)}
    /\ ast = Unset
    /\ pc = "input"
    /\ news = <<>>
    /\ fts_available \in BOOLEAN
    /\ result = NoResult
    /\ storage = <<>>
    /\ NoSession
    /\ rendered = Unset
    /\ NoFetching

SpecShape == InitShape /\ [][Next]_vars

IsTermOrNot(n) == n.kind = "Term" \/ (n.kind = "Not" /\ n.node.kind = "Term")

IsAndLayer(n) ==
    n.kind = "And" /\ \A i \in 1..Len(n.nodes) : IsTermOrNot(n.nodes[i])

\* C20: every returned AST has a fixed layered shape: the child of a Not is
\* a Term, the children of an And are Terms and Nots, the children of an Or
\* are Terms, Nots and Ands; so no Or is nested in any node, no And in an And
\* or a Not, and the tree has at most four levels (Or, And, Not, Term).
AstLayered ==
    (pc = "parsed" /\ IsNode(ast)) =>
        \/ IsTermOrNot(ast)
        \/ IsAndLayer(ast)
        \/ /\ ast.kind = "Or"
           /\ \A i \in 1..Len(ast.nodes) :
                 IsTermOrNot(ast.nodes[i]) \/ IsAndLayer(ast.nodes[i])

\* a tree of all four levels has been returned
AstLayeredWitness ==
    /\ pc = "parsed"
    /\ ast = OrNode(<<AndNode(<<Term(<<"a">>, FALSE), NotNode(Term(<<"b">>, FALSE))>>),
                      Term(<<"a", Space, "b">>, TRUE)>>)

\* ---------------------------------------------------------------------------
\* Fetching: the scheduler's job and the /fetch command both run do_fetch, which
\* awaits collect_all one feed at a time and then hands each source's items to
\* Database.insert_many. A run gives way to the other one at every await; the
\* insert_many calls are steps of their own, so that the calls of two runs fall
\* in every order.
\* ---------------------------------------------------------------------------

\* the entries a feed can deliver: both feeds carry the item of hash h2
FeedEntries(source) ==
    IF source = "s1"
    THEN { [source |-> "s1", title |-> <<"a", "b">>, summary |-> <<>>, hash |-> "h1"],
           [source |-> "s1", title |-> <<"A">>, summary |-> <<"b">>, hash |-> "h2"] }
    ELSE { [source |-> "s2", title |-> <<"A">>, summary |-> <<"b">>, hash |-> "h2"] }

\* grouped[source] of do_fetch: the items of one source, in the order collected
grouped(items, source) == SelectSeq(items, LAMBDA it : it.source = source)

InitFetch ==
    /\ raw = <<>>
    /\ ast = Unset
    /\ pc = "input"
    /\ news = <<>>
    /\ fts_available \in BOOLEAN
    /\ result = NoResult
    /\ storage = <<>>
    /\ NoSession
    /\ rendered = Unset
    /\ NoFetching

\* scheduled_fetch / fetch_trigger: a run of do_fetch starts and awaits collect_all
StartFetch(j) ==
    /\ fetch[j].pc = "idle"
    /\ fetch' = [fetch EXCEPT ![j] = [pc |-> "collecting", todo |-> FEEDS,
                                      items |-> <<>>, added |-> NoneAdded]]
    /\ UNCHANGED <<raw, ast, pc, news, fts_available, result, storage, session,
                   rendered, returned>>

\* what the feed a run is waiting for can answer with
Deliveries(j) ==
    IF fetch[j].pc = "collecting"
    THEN SeqsUpTo(FeedEntries(Head(fetch[j].todo)), MaxBatch)
    ELSE {}

\* collect_all: fetch_single has answered for the next feed, its entries join items
CollectFeed(j, entries) ==
    /\ fetch[j].pc = "collecting"
    /\ entries \in Deliveries(j)
    /\ fetch' = [fetch EXCEPT ![j] =
                    IF Len(fetch[j].todo) = 1
                    THEN [pc |-> "inserting", todo |-> FEEDS,
                          items |-> fetch[j].items \o entries, added |-> NoneAdded]
                    ELSE [pc |-> "collecting", todo |-> Tail(fetch[j].todo),
                          items |-> fetch[j].items \o entries, added |-> NoneAdded]]
    /\ UNCHANGED <<raw, ast, pc, news, fts_available, result, storage, session,
                   rendered, returned>>

\* do_fetch: inserted = db.insert_many(rows) for the next source
InsertSource(j) ==
    /\ fetch[j].pc = "inserting"
    /\ LET source == Head(fetch[j].todo)
           rows == grouped(fetch[j].items, source)
       IN \E r \in {IF rows = <<>> THEN [table |-> news, inserted |-> 0]
                    ELSE insert_rows(rows, news, 0)} :
             /\ news' = r.table
             /\ returned' = returned + r.inserted
             /\ fetch' = [fetch EXCEPT ![j] =
                   [pc |-> IF Len(fetch[j].todo) = 1 THEN "idle" ELSE "inserting",
                    todo |-> Tail(fetch[j].todo),
                    items |-> fetch[j].items,
                    added |-> [fetch[j].added EXCEPT ![source] = r.inserted]]]
    /\ UNCHANGED <<raw, ast, pc, fts_available, result, storage, session, rendered>>

NextFetch ==
    \/ \E j \in Jobs : StartFetch(j)
    \/ \E j \in Jobs : \E entries \in Deliveries(j) : CollectFeed(j, entries)
    \/ \E j \in Jobs : InsertSource(j)

SpecFetch == InitFetch /\ [][NextFetch]_vars

\* the hashes stored in a table
Hashes(table) == {table[i].hash : i \in 1..Len(table)}

\* the run whose insert_many call this step is, if it is one
CallOf(j) == fetch[j].pc = "inserting" /\ fetch'[j] # fetch[j]

\* C21: however the insert_many calls of the scheduled fetch and of a manual
\* /fetch fall, the news table never holds two rows of the same hash and the
\* counts the calls returned sum to the number of stored rows; and every call
\* keeps the rows stored before it, leaves every hash of its batch stored (a
\* row whose hash is already there is skipped, the rows after it are still
\* tried) and returns exactly the number of rows it added.
InsertManyDeduplicates ==
    /\ [](/\ \A a, b \in 1..Len(news) : news[a].hash = news[b].hash => a = b
          /\ returned = Len(news))
    /\ [][\A j \in Jobs : CallOf(j) =>
             LET source == Head(fetch[j].todo)
                 rows == grouped(fetch[j].items, source)
             IN /\ SubSeq(news', 1, Len(news)) = news
                /\ Hashes(news') = Hashes(news) \cup Hashes(rows)
                /\ fetch'[j].added[source] = Len(news') - Len(news)
                /\ returned' - returned = fetch'[j].added[source]]_vars

\* the calls of the two runs alternated: the scheduled run stored h1 and has
\* its second call ahead; between its calls the manual run, holding h1 and h2,
\* skipped h1, still added h2 and returned 1
InsertManyDeduplicatesWitness ==
    /\ fetch["scheduled"].pc = "inserting"
    /\ fetch["scheduled"].todo = <<"s2">>
    /\ Len(fetch["scheduled"].items) = 2
    /\ fetch["scheduled"].items[1].hash = "h1"
    /\ fetch["scheduled"].items[2].source = "s2"
    /\ fetch["scheduled"].added["s1"] = 1
    /\ fetch["manual"].pc = "idle"
    /\ Len(fetch["manual"].items) = 2
    /\ fetch["manual"].items[1].hash = "h1"
    /\ fetch["manual"].items[2].hash = "h2"
    /\ fetch["manual"].items[2].source = "s1"
    /\ fetch["manual"].added["s1"] = 1
    /\ Hashes(news) = {"h1", "h2"}
    /\ returned = 2

====
